---- MODULE Spec2Model ----
(***************************************************************************)
(* Model of src/index.ts: an Express application with five routes, three   *)
(* of which delegate to the MercadoPago SDK (preference.create and         *)
(* payment.get).  Every request is one slot r \in Reqs.  A handler runs    *)
(* synchronously up to its await (one action) and its continuation runs    *)
(* when the gateway promise settles (a second action).  The gateway is the *)
(* environment: its answer to a call is any fulfilment or rejection.       *)
(***************************************************************************)
EXTENDS Integers, Sequences, FiniteSets, TLC

\* ---------------------------------------------------------------- bounds
MaxReqs == 2        \* requests the server receives in one behaviour
MaxItems == 2       \* longest `items` array a client posts

Reqs == 1..MaxReqs

\* ------------------------------------------------------------- JS values
\* `undefined` where a string is expected, and where an object/array is.
Undefined == "<undefined>"
JsUndefined == [type |-> "undefined"]
JsArray(s) == [type |-> "array", elems |-> s]
JsNumber(n) == [type |-> "number", value |-> n]

\* Truthiness as `!x` and `x || y` use it.
FalsyString(s) == s = Undefined \/ s = ""
Falsy(v) ==
    CASE v.type = "undefined" -> TRUE
      [] v.type = "number" -> v.value = 0
      [] OTHER -> FALSE

\* ------------------------------------------------------------ environment
\* process.env as read by the handlers.
ProcessEnv ==
    [FRONTEND_URL |-> "http://localhost:8080",
     MERCADOPAGO_PUBLIC_KEY |-> "TEST-public-key"]

\* What the clock returns to a handler that reads it (Date.now(), new Date()):
\* an input of the request, kept symbolic.
Times == {"1700000000000"}

\* Host header and protocol of the inbound request.
Hosts == {"localhost:3001"}
Protocol == "http"

\* ------------------------------------------------------------ inputs
\* Product, with quantity and unit_price never validated by the handler.
ItemA == [id |-> "p1", title |-> "Laptop", quantity |-> 1,
          unit_price |-> 2500, currency_id |-> "USD"]
ItemB == [id |-> "p2", title |-> "Mouse", quantity |-> -2,
          unit_price |-> 0, currency_id |-> ""]
ItemC == [id |-> "p3", title |-> "Teclado", quantity |-> 3,
          unit_price |-> -15, currency_id |-> Undefined]
Catalog == <<ItemA, ItemB, ItemC>>

\* The arrays a client posts: runs of the catalog of at most MaxItems items
\* (the empty array included).
Carts ==
    {SubSeq(Catalog, p[1], p[2]) :
        p \in {q \in (1..Len(Catalog)) \X (0..Len(Catalog)) :
                   q[2] >= q[1] - 1 /\ q[2] - q[1] + 1 <= MaxItems}}

PayerAna == [type |-> "object", name |-> "Ana", email |-> "not-an-email",
             phone |-> [number |-> "999888777"]]
Payers == {JsUndefined, PayerAna}

\* CreatePreferenceRequest bodies: items absent, a non-array, or an array.
ItemsValues == {JsUndefined, JsNumber(5)} \cup {JsArray(c) : c \in Carts}
CreateBodies == {[items |-> i, payer |-> p] : i \in ItemsValues, p \in Payers}

\* Webhook bodies {type, data}.
WebhookBodies ==
    {[type |-> "payment", data |-> [type |-> "object", id |-> "123"]],
     [type |-> "payment", data |-> JsUndefined],
     [type |-> "merchant_order", data |-> [type |-> "object", id |-> "123"]],
     [type |-> Undefined, data |-> JsUndefined]}

PaymentIds == {"123", "456"}

\* ------------------------------------------------------------ gateway
\* What a rejected SDK promise carries: an Error (the fetch aborted after
\* the configured timeout) or a plain object (the API's error body).
ClientTimeout == 5000
TimeoutError == [isError |-> TRUE, message |-> "The operation was aborted."]
ApiError == [isError |-> FALSE, message |-> "invalid access token"]
Thrown == {TimeoutError, ApiError}
Rejections == {[settled |-> TRUE, ok |-> FALSE, error |-> e] : e \in Thrown}

Sessions ==
    {[id |-> "pref-1", init_point |-> "https://mp/checkout?pref=1",
      sandbox_init_point |-> "https://sandbox.mp/checkout?pref=1"],
     [id |-> "pref-2", init_point |-> "https://mp/checkout?pref=2",
      sandbox_init_point |-> Undefined]}

PaymentOf(st, detail) ==
    [id |-> "123", status |-> st, status_detail |-> detail,
     transaction_amount |-> "2500", currency_id |-> "PEN",
     payment_method_id |-> "visa", external_reference |-> "order_1700000000000",
     date_created |-> "2023-11-14T22:13:20.000Z"]
PaymentInfos ==
    {PaymentOf("approved", "accredited"),
     PaymentOf("pending", "pending_contingency"),
     PaymentOf("rejected", "cc_rejected_other_reason"),
     PaymentOf("in_process", Undefined)}

CreateAnswers ==
    {[settled |-> TRUE, ok |-> TRUE, result |-> s] : s \in Sessions} \cup Rejections
PaymentAnswers ==
    {[settled |-> TRUE, ok |-> TRUE, result |-> p] : p \in PaymentInfos} \cup Rejections
NoAnswer == [settled |-> FALSE]

\* ------------------------------------------------------------ state
VARIABLES
    pc,         \* pc[r]: "idle" (not yet received), "awaiting", "done"
    route,      \* route[r]: the route that matched
    input,      \* input[r]: what the handler read from req
    now,        \* now[r]: what the clock returned to the handler, if read
    calls,      \* calls[r]: the gateway calls the handler issued, in order
    answer,     \* answer[r]: how the gateway settled the call
    responses,  \* responses[r]: the responses written to res, in order
    console     \* console[r]: the console lines the handler printed

vars == <<pc, route, input, now, calls, answer, responses, console>>

NoRoute == "none"
NoInput == [none |-> TRUE]
NoTime == "none"

Init ==
    /\ pc = [r \in Reqs |-> "idle"]
    /\ route = [r \in Reqs |-> NoRoute]
    /\ input = [r \in Reqs |-> NoInput]
    /\ now = [r \in Reqs |-> NoTime]
    /\ calls = [r \in Reqs |-> <<>>]
    /\ answer = [r \in Reqs |-> NoAnswer]
    /\ responses = [r \in Reqs |-> <<>>]
    /\ console = [r \in Reqs |-> <<>>]

\* res.status(s).json(b)
Reply(s, b) == [status |-> s, body |-> b]

\* ------------------------------------------------- create-preference
\* Variant: the emptiness test is dropped (`!items` alone).
ItemsMissingNoLength(items) == Falsy(items)

\* `!items || items.length === 0`
ItemsMissing(items) ==
    Falsy(items) \/ (items.type = "array" /\ Len(items.elems) = 0)

\* Variant: `item.currency_id ?? 'PEN'`, which keeps the empty string.
ItemCurrencyNullish(c) == IF c = Undefined THEN "PEN" ELSE c

\* `item.currency_id || 'PEN'`
ItemCurrency(c) == IF FalsyString(c) THEN "PEN" ELSE c

\* `items.map(item => ({...}))`
MapItems(elems) ==
    [k \in 1..Len(elems) |->
        [id |-> elems[k].id,
         title |-> elems[k].title,
         quantity |-> elems[k].quantity,
         unit_price |-> elems[k].unit_price,
         currency_id |-> ItemCurrency(elems[k].currency_id)]]

\* `payer ? {name, email, phone} : undefined`
MapPayer(payer) ==
    IF Falsy(payer) THEN JsUndefined
    ELSE [type |-> "object", name |-> payer.name, email |-> payer.email,
          phone |-> payer.phone]

Installments == 12

PreferenceData(body, host, t) ==
    [items |-> MapItems(body.items.elems),
     payment_methods |-> [excluded_payment_methods |-> <<>>,
                          excluded_payment_types |-> <<>>,
                          installments |-> Installments],
     back_urls |-> [success |-> <<ProcessEnv.FRONTEND_URL, "/success">>,
                    failure |-> <<ProcessEnv.FRONTEND_URL, "/failure">>,
                    pending |-> <<ProcessEnv.FRONTEND_URL, "/pending">>],
     auto_return |-> "approved",
     payer |-> MapPayer(body.payer),
     notification_url |-> <<Protocol, "://", host, "/api/webhook">>,
     statement_descriptor |-> "MI_ECOMMERCE",
     external_reference |-> <<"order_", t>>]

ItemsRequired == Reply(400, [error |-> "Items are required"])

\* Variant: the two redirect links are swapped.
CreateSuccessSwapped(result) ==
    Reply(200, [id |-> result.id,
                init_point |-> result.sandbox_init_point,
                sandbox_init_point |-> result.init_point])

CreateSuccess(result) ==
    Reply(200, [id |-> result.id,
                init_point |-> result.init_point,
                sandbox_init_point |-> result.sandbox_init_point])

\* Variant: `error.message` whatever was thrown.
ErrorDetailsAlwaysMessage(e) == e.message

\* `error instanceof Error ? error.message : 'Unknown error'`
ErrorDetails(e) == IF e.isError THEN e.message ELSE "Unknown error"

CreateFailure(e) ==
    Reply(500, [error |-> "Error creating payment preference",
                details |-> ErrorDetails(e)])

\* The TypeError `items.map` raises on a truthy non-array.
MapTypeError == [isError |-> TRUE, message |-> "items.map is not a function"]

\* POST /api/create-preference, up to the await.
CreatePreference(r) ==
    \E body \in CreateBodies, host \in Hosts, t \in Times :
        /\ pc[r] = "idle"
        /\ route' = [route EXCEPT ![r] = "create-preference"]
        /\ input' = [input EXCEPT ![r] = [body |-> body, host |-> host]]
        /\ IF ItemsMissing(body.items)
           THEN /\ pc' = [pc EXCEPT ![r] = "done"]
                /\ responses' = [responses EXCEPT ![r] = <<ItemsRequired>>]
                /\ console' = [console EXCEPT ![r] = <<"Datos recibidos">>]
                /\ UNCHANGED <<now, calls>>
           ELSE IF body.items.type # "array"
           THEN /\ pc' = [pc EXCEPT ![r] = "done"]
                /\ responses' = [responses EXCEPT ![r] = <<CreateFailure(MapTypeError)>>]
                /\ console' = [console EXCEPT ![r] =
                                  <<"Datos recibidos", "Error creating preference">>]
                /\ UNCHANGED <<now, calls>>
           ELSE /\ pc' = [pc EXCEPT ![r] = "awaiting"]
                /\ now' = [now EXCEPT ![r] = t]
                /\ calls' = [calls EXCEPT ![r] =
                                <<[op |-> "preference.create",
                                   body |-> PreferenceData(body, host, t)]>>]
                /\ console' = [console EXCEPT ![r] =
                                  <<"Datos recibidos", "PreferenceData final">>]
                /\ UNCHANGED responses
        /\ UNCHANGED answer

\* Variant: a rejected call is issued once more before the handler gives up.
CreatePreferenceSettleRetry(r) ==
    \E a \in CreateAnswers :
        /\ pc[r] = "awaiting"
        /\ route[r] = "create-preference"
        /\ IF a.ok
           THEN /\ answer' = [answer EXCEPT ![r] = a]
                /\ pc' = [pc EXCEPT ![r] = "done"]
                /\ responses' = [responses EXCEPT ![r] = Append(@, CreateSuccess(a.result))]
                /\ UNCHANGED <<console, calls>>
           ELSE IF Len(calls[r]) < 2
           THEN /\ calls' = [calls EXCEPT ![r] = Append(@, @[1])]
                /\ UNCHANGED <<answer, pc, responses, console>>
           ELSE /\ answer' = [answer EXCEPT ![r] = a]
                /\ pc' = [pc EXCEPT ![r] = "done"]
                /\ responses' = [responses EXCEPT ![r] = Append(@, CreateFailure(a.error))]
                /\ console' = [console EXCEPT ![r] = Append(@, "Error creating preference")]
                /\ UNCHANGED calls
        /\ UNCHANGED <<route, input, now>>

\* The continuation after `await preference.create(...)`.
CreatePreferenceSettle(r) ==
    \E a \in CreateAnswers :
        /\ pc[r] = "awaiting"
        /\ route[r] = "create-preference"
        /\ answer' = [answer EXCEPT ![r] = a]
        /\ pc' = [pc EXCEPT ![r] = "done"]
        /\ IF a.ok
           THEN /\ responses' = [responses EXCEPT ![r] = Append(@, CreateSuccess(a.result))]
                /\ UNCHANGED console
           ELSE /\ responses' = [responses EXCEPT ![r] = Append(@, CreateFailure(a.error))]
                /\ console' = [console EXCEPT ![r] = Append(@, "Error creating preference")]
        /\ UNCHANGED <<route, input, now, calls>>

\* ------------------------------------------------------------ webhook
\* Variant: any event that names a type is looked up.
IsPaymentEventAnyType(type) == type # Undefined

\* `type === 'payment'`
IsPaymentEvent(type) == type = "payment"

Received == Reply(200, [received |-> TRUE])
WebhookFailure == Reply(500, [error |-> "Webhook processing failed"])

\* The console line the `switch (paymentInfo.status)` prints, if any.
StatusBranch(status) ==
    CASE status = "approved" -> <<"Pago aprobado">>
      [] status = "pending" -> <<"Pago pendiente">>
      [] status = "rejected" -> <<"Pago rechazado">>
      [] OTHER -> <<>>

\* POST /api/webhook, up to the await (or to the response when there is none).
Webhook(r) ==
    \E body \in WebhookBodies :
        /\ pc[r] = "idle"
        /\ route' = [route EXCEPT ![r] = "webhook"]
        /\ input' = [input EXCEPT ![r] = [body |-> body]]
        /\ IF IsPaymentEvent(body.type)
           THEN IF body.data.type = "undefined"
                THEN \* `data.id` raises a TypeError, caught by the handler
                     /\ pc' = [pc EXCEPT ![r] = "done"]
                     /\ responses' = [responses EXCEPT ![r] = <<WebhookFailure>>]
                     /\ console' = [console EXCEPT ![r] =
                                       <<"Webhook received", "Webhook error">>]
                     /\ UNCHANGED calls
                ELSE /\ pc' = [pc EXCEPT ![r] = "awaiting"]
                     /\ calls' = [calls EXCEPT ![r] =
                                     <<[op |-> "payment.get", id |-> body.data.id]>>]
                     /\ console' = [console EXCEPT ![r] = <<"Webhook received">>]
                     /\ UNCHANGED responses
           ELSE /\ pc' = [pc EXCEPT ![r] = "done"]
                /\ responses' = [responses EXCEPT ![r] = <<Received>>]
                /\ console' = [console EXCEPT ![r] = <<"Webhook received">>]
                /\ UNCHANGED calls
        /\ UNCHANGED <<now, answer>>

\* Variant: the `rejected` branch answers with a failure.
WebhookSettleRejectedFails(r) ==
    \E a \in PaymentAnswers :
        /\ pc[r] = "awaiting"
        /\ route[r] = "webhook"
        /\ answer' = [answer EXCEPT ![r] = a]
        /\ pc' = [pc EXCEPT ![r] = "done"]
        /\ IF a.ok
           THEN /\ responses' = [responses EXCEPT ![r] =
                                    Append(@, IF a.result.status = "rejected"
                                              THEN WebhookFailure ELSE Received)]
                /\ console' = [console EXCEPT ![r] =
                                  @ \o <<"Payment info">> \o StatusBranch(a.result.status)]
           ELSE /\ responses' = [responses EXCEPT ![r] = Append(@, WebhookFailure)]
                /\ console' = [console EXCEPT ![r] = Append(@, "Webhook error")]
        /\ UNCHANGED <<route, input, now, calls>>

\* The continuation after `await payment.get(...)` in the webhook.
WebhookSettle(r) ==
    \E a \in PaymentAnswers :
        /\ pc[r] = "awaiting"
        /\ route[r] = "webhook"
        /\ answer' = [answer EXCEPT ![r] = a]
        /\ pc' = [pc EXCEPT ![r] = "done"]
        /\ IF a.ok
           THEN /\ responses' = [responses EXCEPT ![r] = Append(@, Received)]
                /\ console' = [console EXCEPT ![r] =
                                  @ \o <<"Payment info">> \o StatusBranch(a.result.status)]
           ELSE /\ responses' = [responses EXCEPT ![r] = Append(@, WebhookFailure)]
                /\ console' = [console EXCEPT ![r] = Append(@, "Webhook error")]
        /\ UNCHANGED <<route, input, now, calls>>

\* ------------------------------------------------------------ payment/:id
\* Variant: status_detail is filled from status.
PaymentProjectionDetailFromStatus(info) ==
    Reply(200, [id |-> info.id,
                status |-> info.status,
                status_detail |-> info.status,
                transaction_amount |-> info.transaction_amount,
                currency_id |-> info.currency_id,
                payment_method_id |-> info.payment_method_id,
                external_reference |-> info.external_reference,
                date_created |-> info.date_created])

PaymentProjection(info) ==
    Reply(200, [id |-> info.id,
                status |-> info.status,
                status_detail |-> info.status_detail,
                transaction_amount |-> info.transaction_amount,
                currency_id |-> info.currency_id,
                payment_method_id |-> info.payment_method_id,
                external_reference |-> info.external_reference,
                date_created |-> info.date_created])

PaymentFailure(e) ==
    Reply(500, [error |-> "Error getting payment information",
                details |-> ErrorDetails(e)])

\* Variant: the handler has no catch, so a rejection leaves the request
\* without a response.
GetPaymentSettleUncaught(r) ==
    \E a \in PaymentAnswers :
        /\ pc[r] = "awaiting"
        /\ route[r] = "payment"
        /\ answer' = [answer EXCEPT ![r] = a]
        /\ IF a.ok
           THEN /\ pc' = [pc EXCEPT ![r] = "done"]
                /\ responses' = [responses EXCEPT ![r] = Append(@, PaymentProjection(a.result))]
           ELSE /\ pc' = [pc EXCEPT ![r] = "hung"]
                /\ UNCHANGED responses
        /\ UNCHANGED <<route, input, now, calls, console>>

\* Variant: `res` is kept in a module-level variable, so the continuation
\* answers on the response object of the request received last.
GetPaymentSettleSharedRes(r) ==
    \E a \in PaymentAnswers, q \in Reqs :
        /\ pc[r] = "awaiting"
        /\ route[r] = "payment"
        /\ pc[q] # "idle"
        /\ answer' = [answer EXCEPT ![r] = a]
        /\ pc' = [pc EXCEPT ![r] = "done"]
        /\ responses' = [responses EXCEPT ![q] =
                            Append(@, IF a.ok THEN PaymentProjection(a.result)
                                      ELSE PaymentFailure(a.error))]
        /\ UNCHANGED <<route, input, now, calls, console>>

\* GET /api/payment/:id, up to the await.
GetPayment(r) ==
    \E id \in PaymentIds :
        /\ pc[r] = "idle"
        /\ route' = [route EXCEPT ![r] = "payment"]
        /\ input' = [input EXCEPT ![r] = [params |-> [id |-> id]]]
        /\ pc' = [pc EXCEPT ![r] = "awaiting"]
        /\ calls' = [calls EXCEPT ![r] = <<[op |-> "payment.get", id |-> id]>>]
        /\ UNCHANGED <<now, answer, responses, console>>

\* The continuation after `await payment.get(...)` in the lookup.
GetPaymentSettle(r) ==
    \E a \in PaymentAnswers :
        /\ pc[r] = "awaiting"
        /\ route[r] = "payment"
        /\ answer' = [answer EXCEPT ![r] = a]
        /\ pc' = [pc EXCEPT ![r] = "done"]
        /\ IF a.ok
           THEN /\ responses' = [responses EXCEPT ![r] = Append(@, PaymentProjection(a.result))]
                /\ UNCHANGED console
           ELSE /\ responses' = [responses EXCEPT ![r] = Append(@, PaymentFailure(a.error))]
                /\ console' = [console EXCEPT ![r] = Append(@, "Error getting payment info")]
        /\ UNCHANGED <<route, input, now, calls>>

\* ------------------------------------------------------------ health, config
\* GET /api/health
Health(r) ==
    \E t \in Times :
        /\ pc[r] = "idle"
        /\ route' = [route EXCEPT ![r] = "health"]
        /\ input' = [input EXCEPT ![r] = [body |-> JsUndefined]]
        /\ now' = [now EXCEPT ![r] = t]
        /\ pc' = [pc EXCEPT ![r] = "done"]
        /\ responses' = [responses EXCEPT ![r] =
                            <<Reply(200, [status |-> "OK",
                                          message |-> "Backend funcionando correctamente",
                                          timestamp |-> t])>>]
        /\ UNCHANGED <<calls, answer, console>>

\* GET /api/config
Config(r) ==
    /\ pc[r] = "idle"
    /\ route' = [route EXCEPT ![r] = "config"]
    /\ input' = [input EXCEPT ![r] = [body |-> JsUndefined]]
    /\ pc' = [pc EXCEPT ![r] = "done"]
    /\ responses' = [responses EXCEPT ![r] =
                        <<Reply(200, [publicKey |-> ProcessEnv.MERCADOPAGO_PUBLIC_KEY])>>]
    /\ UNCHANGED <<now, calls, answer, console>>

\* ------------------------------------------------------------ error handler
\* What express.json() passes to next() for a body that is not JSON.
JsonSyntaxError == [isError |-> TRUE, message |-> "Unexpected token } in JSON"]

GlobalErrorReply(e) ==
    Reply(500, [error |-> "Internal server error", message |-> e.message])

\* A POST whose body express.json() cannot parse: the route handler never
\* runs and the global error handler answers.
MalformedJson(r) ==
    \E rt \in {"create-preference", "webhook"} :
        /\ pc[r] = "idle"
        /\ route' = [route EXCEPT ![r] = rt]
        /\ input' = [input EXCEPT ![r] = [malformed |-> TRUE]]
        /\ pc' = [pc EXCEPT ![r] = "done"]
        /\ responses' = [responses EXCEPT ![r] = <<GlobalErrorReply(JsonSyntaxError)>>]
        /\ console' = [console EXCEPT ![r] = <<"Global error handler">>]
        /\ UNCHANGED <<now, calls, answer>>

\* ------------------------------------------------------------ system
Next ==
    \E r \in Reqs :
        \/ Health(r)
        \/ Config(r)
        \/ CreatePreference(r)
        \/ CreatePreferenceSettle(r)
        \/ Webhook(r)
        \/ WebhookSettle(r)
        \/ GetPayment(r)
        \/ GetPaymentSettle(r)
        \/ MalformedJson(r)

Spec == Init /\ [][Next]_vars

\* Each pending gateway call settles: the SDK client rejects the call once
\* ClientTimeout has elapsed, so an awaited promise never stays pending.
Settle(r) == CreatePreferenceSettle(r) \/ WebhookSettle(r) \/ GetPaymentSettle(r)
FairSpec == Spec /\ \A r \in Reqs : WF_vars(Settle(r))

\* ============================================================ properties
Arrived(r) == pc[r] # "idle"
Done(r) == pc[r] = "done"
HasBody(r) == "body" \in DOMAIN input[r]
Fulfilled(r) == answer[r].settled /\ answer[r].ok
Rejected(r) == answer[r].settled /\ ~answer[r].ok
IsCreate(r) == Arrived(r) /\ route[r] = "create-preference" /\ HasBody(r)
IsWebhook(r) == Arrived(r) /\ route[r] = "webhook" /\ HasBody(r)
IsLookup(r) == Arrived(r) /\ route[r] = "payment"

AbsentOrEmpty(items) ==
    items.type = "undefined" \/ (items.type = "array" /\ items.elems = <<>>)
NonEmptyArray(items) == items.type = "array" /\ Len(items.elems) >= 1

\* C1: a create-preference request whose body has `items` absent or empty is
\* answered with exactly 400 {error: "Items are required"}, and no gateway
\* call is issued for it.
C1_ItemsRequired ==
    \A r \in Reqs :
        (IsCreate(r) /\ AbsentOrEmpty(input[r].body.items)) =>
            /\ Done(r)
            /\ responses[r] = <<[status |-> 400, body |-> [error |-> "Items are required"]]>>
            /\ calls[r] = <<>>

C1_Witness ==
    \E r \in Reqs :
        /\ IsCreate(r)
        /\ input[r].body.items = JsArray(<<>>)
        /\ Len(responses[r]) = 1
        /\ responses[r][1].status = 400

\* C2: for an `items` array of at least one item, whatever its quantities,
\* prices and payer, a fulfilled create-session call is answered with 200 and
\* the id, init_point and sandbox_init_point of the gateway's result.
C2_SessionRelayed ==
    \A r \in Reqs :
        (IsCreate(r) /\ NonEmptyArray(input[r].body.items) /\ Fulfilled(r)) =>
            /\ Len(responses[r]) = 1
            /\ responses[r][1].status = 200
            /\ responses[r][1].body.id = answer[r].result.id
            /\ responses[r][1].body.init_point = answer[r].result.init_point
            /\ responses[r][1].body.sandbox_init_point = answer[r].result.sandbox_init_point

C2_Witness ==
    \E r \in Reqs :
        /\ IsCreate(r)
        /\ input[r].body.items = JsArray(<<ItemB, ItemC>>)
        /\ input[r].body.payer = PayerAna
        /\ Fulfilled(r)
        /\ answer[r].result.id = "pref-1"
        /\ Len(responses[r]) = 1
        /\ responses[r][1].status = 200

\* C3: in the session request sent to the gateway, an item whose currency_id
\* is absent or empty carries 'PEN', an item with a non-empty currency_id
\* carries it unchanged, and count, order, id, title, quantity and unit_price
\* are those of the items received.
C3_CurrencyFallback ==
    \A r \in Reqs :
        (IsCreate(r) /\ calls[r] # <<>>) =>
            LET got == input[r].body.items.elems
                sent == calls[r][1].body.items
            IN  /\ calls[r][1].op = "preference.create"
                /\ Len(sent) = Len(got)
                /\ \A k \in 1..Len(got) :
                      /\ sent[k].id = got[k].id
                      /\ sent[k].title = got[k].title
                      /\ sent[k].quantity = got[k].quantity
                      /\ sent[k].unit_price = got[k].unit_price
                      /\ sent[k].currency_id =
                            IF got[k].currency_id \in {Undefined, ""}
                            THEN "PEN" ELSE got[k].currency_id

C3_Witness ==
    \E r \in Reqs :
        /\ IsCreate(r)
        /\ calls[r] # <<>>
        /\ input[r].body.items = JsArray(<<ItemA, ItemB>>)
        /\ calls[r][1].body.items[1].currency_id = "USD"
        /\ calls[r][1].body.items[2].currency_id = "PEN"

\* C4: the webhook answers 200 {received: true} whenever nothing is thrown,
\* the same for every status the lookup reports, and answers 500 only when
\* the lookup is rejected or the payload is malformed (a payment event
\* without `data`).
C4_WebhookReplies ==
    \A r \in Reqs :
        (IsWebhook(r) /\ Done(r)) =>
            LET threw == \/ Rejected(r)
                         \/ (input[r].body.type = "payment"
                             /\ input[r].body.data.type = "undefined")
            IN  /\ Len(responses[r]) = 1
                /\ ~threw => responses[r][1] = [status |-> 200, body |-> [received |-> TRUE]]
                /\ threw => responses[r][1].status = 500

C4_Witness ==
    /\ \E r \in Reqs :
          /\ IsWebhook(r)
          /\ Fulfilled(r)
          /\ answer[r].result.status = "rejected"
          /\ responses[r] = <<[status |-> 200, body |-> [received |-> TRUE]]>>
    /\ \E r \in Reqs :
          /\ IsWebhook(r)
          /\ input[r].body.type = "payment"
          /\ input[r].body.data.type = "undefined"
          /\ Len(responses[r]) = 1
          /\ responses[r][1].status = 500

\* C5: a webhook event whose type is not "payment" is answered with 200
\* {received: true} and no fetch-payment call; the lookup is issued only for
\* events of type "payment".
C5_OnlyPaymentLooksUp ==
    \A r \in Reqs :
        IsWebhook(r) =>
            /\ input[r].body.type # "payment" =>
                  /\ Done(r)
                  /\ responses[r] = <<[status |-> 200, body |-> [received |-> TRUE]]>>
                  /\ calls[r] = <<>>
            /\ calls[r] # <<>> => input[r].body.type = "payment"

C5_Witness ==
    \E r \in Reqs :
        /\ IsWebhook(r)
        /\ input[r].body.type = "merchant_order"
        /\ Len(responses[r]) = 1
        /\ responses[r][1].status = 200

\* C6: every payment lookup issues its own fetch for the id of its path; a
\* fulfilled fetch is answered with the eight fields of the gateway's record
\* unchanged, a rejected one with 500 and an `error` and a `details` field.
C6_LookupVerbatim ==
    \A r \in Reqs :
        IsLookup(r) =>
            /\ calls[r] = <<[op |-> "payment.get", id |-> input[r].params.id]>>
            /\ Fulfilled(r) =>
                  /\ Len(responses[r]) = 1
                  /\ responses[r][1].status = 200
                  /\ LET b == responses[r][1].body
                         g == answer[r].result
                     IN  /\ DOMAIN b = {"id", "status", "status_detail",
                                        "transaction_amount", "currency_id",
                                        "payment_method_id", "external_reference",
                                        "date_created"}
                         /\ b.id = g.id
                         /\ b.status = g.status
                         /\ b.status_detail = g.status_detail
                         /\ b.transaction_amount = g.transaction_amount
                         /\ b.currency_id = g.currency_id
                         /\ b.payment_method_id = g.payment_method_id
                         /\ b.external_reference = g.external_reference
                         /\ b.date_created = g.date_created
            /\ Rejected(r) =>
                  /\ Len(responses[r]) = 1
                  /\ responses[r][1].status = 500
                  /\ {"error", "details"} \subseteq DOMAIN responses[r][1].body

C6_Witness ==
    \E r, q \in Reqs :
        /\ r # q
        /\ IsLookup(r) /\ IsLookup(q)
        /\ input[r] = input[q]
        /\ Fulfilled(r) /\ answer[r].result.status = "pending"
        /\ responses[r][1].body.status_detail = "pending_contingency"
        /\ Rejected(q)
        /\ Len(calls[q]) = 1
        /\ Len(responses[q]) = 1

\* C7 as stated: every rejected gateway call, on any of the three routes, is
\* answered with 500 and the failure's message as `details`.
C7_DetailsForwardedEverywhere ==
    \A r \in Reqs :
        Rejected(r) =>
            /\ Len(responses[r]) = 1
            /\ responses[r][1].status = 500
            /\ "details" \in DOMAIN responses[r][1].body
            /\ responses[r][1].body.details = answer[r].error.message

\* C7 (amended): every rejected gateway call is answered with 500; on
\* create-preference and on the payment lookup the body carries `details`,
\* the message when what was thrown is an Error and 'Unknown error'
\* otherwise; on the webhook the body is {error: 'Webhook processing failed'}
\* and carries no `details`.
C7_FailureReplies ==
    \A r \in Reqs :
        Rejected(r) =>
            /\ Len(responses[r]) = 1
            /\ responses[r][1].status = 500
            /\ route[r] \in {"create-preference", "payment"} =>
                  /\ "details" \in DOMAIN responses[r][1].body
                  /\ responses[r][1].body.details =
                        IF answer[r].error.isError
                        THEN answer[r].error.message ELSE "Unknown error"
            /\ route[r] = "webhook" =>
                  responses[r][1].body = [error |-> "Webhook processing failed"]

C7_Witness ==
    /\ \E r \in Reqs :
          /\ route[r] = "webhook"
          /\ Rejected(r)
          /\ Len(responses[r]) = 1
    /\ \E r \in Reqs :
          /\ route[r] = "create-preference"
          /\ Rejected(r)
          /\ ~answer[r].error.isError
          /\ Len(responses[r]) = 1

\* C8: no retries: a request issues at most one gateway call, and a rejected
\* call ends the request with one 500 response and no second call.
C8_NoRetry ==
    \A r \in Reqs :
        /\ Len(calls[r]) <= 1
        /\ Len(responses[r]) <= 1
        /\ Rejected(r) =>
              /\ Done(r)
              /\ Len(calls[r]) = 1
              /\ Len(responses[r]) = 1
              /\ responses[r][1].status = 500

C8_Witness ==
    \E r, q \in Reqs :
        /\ r # q
        /\ Rejected(r) /\ Rejected(q)
        /\ route[r] = "create-preference"
        /\ route[q] = "webhook"
        /\ Len(calls[r]) = 1
        /\ Len(responses[r]) = 1

\* C9: every request received, on any route, gets exactly one response once
\* its gateway call (if any) has settled: no request is answered twice, and
\* from some point on every request received stays answered exactly once.  A
\* call that times out ends in a failure response, and a failed request
\* leaves the others answered.
C9_AlwaysAnswered ==
    /\ [](\A r \in Reqs : /\ Len(responses[r]) <= 1
                            /\ Done(r) => Len(responses[r]) = 1)
    /\ <>[](\A r \in Reqs : pc[r] = "idle" \/ (Done(r) /\ Len(responses[r]) = 1))

C9_Witness ==
    \E r, q \in Reqs :
        /\ r # q
        /\ Rejected(r)
        /\ answer[r].error = TimeoutError
        /\ Len(responses[r]) = 1
        /\ responses[r][1].status = 500
        /\ Done(q)
        /\ Len(responses[q]) = 1
        /\ responses[q][1].status = 200

\* C10: requests are independent under every interleaving: a step of one
\* request leaves everything recorded for the others as it was, and two
\* requests with the same route, input, clock reading and gateway answer get
\* the same response whatever else the server handled meanwhile.
Slot(r) == <<pc[r], route[r], input[r], now[r], calls[r], answer[r], responses[r], console[r]>>

SameOutcome ==
    \A r, q \in Reqs :
        (/\ Done(r) /\ Done(q)
         /\ route[r] = route[q]
         /\ input[r] = input[q]
         /\ now[r] = now[q]
         /\ answer[r] = answer[q]) => responses[r] = responses[q]

Isolated ==
    \A r, q \in Reqs :
        (r # q /\ Slot(r)' # Slot(r)) => Slot(q)' = Slot(q)

C10_Independent == []SameOutcome /\ [][Isolated]_vars

C10_Witness ==
    \E r, q \in Reqs :
        /\ r # q
        /\ route[r] = "payment" /\ route[q] = "payment"
        /\ input[r] = input[q]
        /\ Rejected(r)
        /\ Fulfilled(q)
        /\ responses[r][1].status = 500
        /\ responses[q][1].status = 200

====
